---- MODULE Spec2Model ----
(***************************************************************************)
(* The in-memory book catalogs of the FastAPI course exercises.            *)
(*                                                                         *)
(* Project02/books2.py and book_project/book.py keep a list BOOKS of Book  *)
(* objects keyed by an integer id (create / read / update / delete by id). *)
(* Project01/books.py and project_1/books.py keep a list BOOKS of plain    *)
(* dicts that are looked up by title, author and category.                 *)
(*                                                                         *)
(* One behaviour runs one of the four modules; the variable app says which.*)
(***************************************************************************)
EXTENDS Integers, Sequences, FiniteSets, TLC

\* Bound on the ids handed out: create_book is not taken once the id it
\* would assign exceeds MaxId.
MaxId == 7

VARIABLES
  app,       \* the exercise module that is running
  BOOKS,     \* its module-level list BOOKS
  last,      \* the last request served: handler, arguments, response
  givenId,   \* history: for each position of BOOKS, the id given at creation
  sinceEmpty,\* history: the store has been empty and delete_book was not
             \* called since it last was
  inflight,  \* per connection, the request whose handler has started and
             \* not returned (the id stores served by one event loop)
  users_json,\* microservices_project: the content of the file users.json
  threads,   \* microservices_project: per worker thread, the call it runs
  Users,     \* TodoApp: the rows of the table users
  Todos,     \* TodoApp: the rows of the table todos
  now,       \* TodoApp: the clock, in minutes
  cookies    \* TodoApp: per browser, the access_token it holds

vars == <<app, BOOKS, last, givenId, sinceEmpty,
          inflight, users_json, threads, Users, Todos, now, cookies>>

\* The state of the modules that are not running.
bookVars == <<BOOKS, givenId, sinceEmpty>>
concVars == <<inflight>>
fileVars == <<users_json, threads>>
todoVars == <<Users, Todos, now, cookies>>

NotConcurrent == inflight = <<>>
NoFile == users_json = <<>> /\ threads = <<>>
NoTodoApp == Users = <<>> /\ Todos = <<>> /\ now = 0 /\ cookies = <<>>

IdApps == {"Project02", "book_project"}

------------------------------------------------------------------------------
(* Python values *)

\* Optional[int]: None is <<>>, the integer n is <<n>>.
None == <<>>
Some(n) == <<n>>

\* Responses of a handler, as FastAPI serialises the returned value.
Null200 == [status |-> 200, kind |-> "null"]
Msg200(text, id) == [status |-> 200, kind |-> "message", text |-> text, id |-> id]
Str200(text) == [status |-> 200, kind |-> "str", text |-> text]
Book200(book) == [status |-> 200, kind |-> "book", book |-> book]
Err422 == [status |-> 422, kind |-> "validation"]

------------------------------------------------------------------------------
(* Project02/books2.py and book_project/book.py: records and catalogs *)

\* class Book of Project02: the constructor stores its five arguments.
\* rating is a float there; it is kept in tenths (4.5 is 45).
Book_Project02(id, title, author, description, rating) ==
  [cls |-> "Book", id |-> id, title |-> title, author |-> author,
   description |-> description, rating |-> rating]

\* class Book of book_project: published_date is stored as published_data.
Book_book_project(id, title, author, description, rating, published_date) ==
  [cls |-> "Book", id |-> id, title |-> title, author |-> author,
   description |-> description, rating |-> rating,
   published_data |-> published_date]

BOOKS_Project02 ==
  << Book_Project02(1, "Computer Science Pro", "codingwithroby", "A very nice book", 50),
     Book_Project02(2, "Be Fast with API", "codingwithroby", "A great book", 50),
     Book_Project02(3, "Master EndPoints", "codingwithroby", "A awesome book", 50),
     Book_Project02(4, "HP1", "Author 1", "Book Description", 20),
     Book_Project02(5, "HP2", "Author 2", "Book Description", 30),
     Book_Project02(6, "HP3", "Author 3", "Book Description", 10) >>

BOOKS_book_project ==
  << Book_book_project(1, "To Kill a Mockingbird", "Harper Lee",
       "A novel about the serious issues of rape and racial inequality told through the eyes of a child.",
       5, 1960),
     Book_book_project(2, "1984", "George Orwell",
       "A dystopian novel that explores government surveillance and totalitarianism.",
       5, 1949),
     Book_book_project(3, "The Great Gatsby", "F. Scott Fitzgerald",
       "A story of the mysterious millionaire Jay Gatsby and his passion for the beautiful Daisy Buchanan.",
       4, 1925),
     Book_book_project(4, "Pride and Prejudice", "Jane Austen",
       "A romantic novel that also critiques the British landed gentry of the early 19th century.",
       5, 1813),
     Book_book_project(5, "Moby-Dick", "Herman Melville",
       "The quest of Ishmael and Captain Ahab for the elusive white whale, Moby Dick.",
       4, 1851),
     Book_book_project(6, "The Catcher in the Rye", "J.D. Salinger",
       "A story about teenage rebellion and alienation through the eyes of Holden Caulfield.",
       4, 1951) >>

Catalog(a) == IF a = "Project02" THEN BOOKS_Project02 ELSE BOOKS_book_project

\* class BookRequest: the validated request body; id is Optional[int].
BookRequest_Project02(id, title, author, description, rating) ==
  [cls |-> "BookRequest", id |-> id, title |-> title, author |-> author,
   description |-> description, rating |-> rating]

BookRequest_book_project(id, title, author, description, rating, published_date) ==
  [cls |-> "BookRequest", id |-> id, title |-> title, author |-> author,
   description |-> description, rating |-> rating,
   published_date |-> published_date]

\* The request bodies the clients send: the example body of each module's
\* json_schema_extra, with the id absent or set to any id in range.
RequestIds == {None} \cup {Some(n) : n \in 0..MaxId}

\* create_book overwrites the id of the body, so two bodies stand for all:
\* one without an id and one with the id of the first catalog entry.
CreateIds == {None, Some(1)}

BookRequests(a) ==
  IF a = "Project02"
  THEN {BookRequest_Project02(i, "Sample Book", "Sample Author",
                              "This is a sample book.", 45) : i \in RequestIds}
  ELSE {BookRequest_book_project(i, "A new book", "adriano",
                                 "A new description of a book", 5, 2029) : i \in RequestIds}

\* Book(**book_request.model_dump())
NewBook(a, r) ==
  IF a = "Project02"
  THEN Book_Project02(r.id, r.title, r.author, r.description, r.rating)
  ELSE Book_book_project(r.id, r.title, r.author, r.description, r.rating,
                         r.published_date)

\* existing_book.id == book.id, for a stored int id and an Optional[int]
IdEq(stored, opt) == opt # None /\ opt[1] = stored

\* The request object as it sits in BOOKS after update_book stored it: the
\* same BookRequest, whose id is then known to be an int.
Stored(book) == [book EXCEPT !.id = book.id[1]]

RemoveAt(s, i) == [j \in 1..(Len(s) - 1) |-> IF j < i THEN s[j] ELSE s[j + 1]]

\* The first index whose record has the id, 0 when there is none: the
\* "for ... if ....id == id" scan shared by the handlers.
FirstIndex(books, id) ==
  IF \E i \in 1..Len(books) : books[i].id = id
  THEN CHOOSE i \in 1..Len(books) :
         /\ books[i].id = id
         /\ \A j \in 1..(i - 1) : books[j].id # id
  ELSE 0

------------------------------------------------------------------------------
(* Project02/books2.py and book_project/book.py: the handlers *)

\* A find_book_id that counts the records instead of reading the last id.
find_book_id_len(books, book) ==
  [book EXCEPT !.id = Len(books) + 1]

\* A find_book_id that keeps an id the request body brought.
find_book_id_keep(books, book) ==
  [book EXCEPT !.id = IF book.id # None THEN book.id[1]
                      ELSE IF Len(books) = 0 THEN 1
                      ELSE books[Len(books)].id + 1]

\* A find_book_id that skips an id after a non-empty list.
find_book_id_skip(books, book) ==
  [book EXCEPT !.id = IF Len(books) = 0 THEN 1 ELSE books[Len(books)].id + 2]

\* find_book_id: 1 on the empty list, else the last element's id plus 1.
find_book_id(books, book) ==
  [book EXCEPT !.id = IF Len(books) = 0 THEN 1 ELSE books[Len(books)].id + 1]

\* An update_book that rebuilds the list: the old record is dropped and the
\* replacement appended at the end.
update_book_list_moved(a, books, book) ==
  LET i == IF book.id = None THEN 0 ELSE FirstIndex(books, book.id[1])
  IN IF i = 0 THEN books ELSE Append(RemoveAt(books, i), Stored(book))

\* The list after update_book(book).  Project02 overwrites the first record
\* with the id and returns; book_project overwrites every record with it.
update_book_list(a, books, book) ==
  IF a = "Project02"
  THEN LET i == IF book.id = None THEN 0 ELSE FirstIndex(books, book.id[1])
       IN IF i = 0 THEN books ELSE [books EXCEPT ![i] = Stored(book)]
  ELSE [i \in 1..Len(books) |->
          IF IdEq(books[i].id, book.id) THEN Stored(book) ELSE books[i]]

\* The response of update_book(book).  Project02 returns a message from
\* inside the loop and falls off the end otherwise; book_project never
\* returns a value.
update_book_response(a, books, book) ==
  IF a = "Project02" /\ book.id # None /\ FirstIndex(books, book.id[1]) # 0
  THEN Msg200("updated successfully", book.id[1])
  ELSE Null200

\* The list after delete_book(book_id): the first record with the id goes.
delete_book_list(books, book_id) ==
  LET i == FirstIndex(books, book_id)
  IN IF i = 0 THEN books ELSE RemoveAt(books, i)

\* The response of delete_book(book_id).
delete_book_response(a, books, book_id) ==
  IF a = "Project02" /\ FirstIndex(books, book_id) # 0
  THEN Msg200("deleted successfully", book_id)
  ELSE Null200

\* The response of read_book(book_id).
read_book_response(a, books, book_id) ==
  LET i == FirstIndex(books, book_id)
  IN IF i # 0 THEN Book200(books[i])
     ELSE IF a = "Project02" THEN Str200("Book not found") ELSE Null200

\* book_id: int = Path(gt=0) in book_project; Project02 takes any int.
PathOk(a, book_id) == a = "Project02" \/ book_id > 0

create_book(book_request) ==
  LET new_book == find_book_id(BOOKS, NewBook(app, book_request))
  IN /\ app \in IdApps
     /\ new_book.id <= MaxId
     /\ BOOKS' = Append(BOOKS, new_book)
     /\ last' = [op |-> "create_book", req |-> book_request,
                 id |-> new_book.id, found |-> FALSE, res |-> Null200,
                 \* history: the id of the last record of the list, when the
                 \* request served just before removed it; 0 otherwise
                 after |-> IF last.op = "delete_book" /\ last.found /\ last.wasLast
                           THEN last.id ELSE 0]
     /\ givenId' = Append(givenId, new_book.id)
     /\ UNCHANGED <<app, sinceEmpty>>
     /\ UNCHANGED <<concVars, fileVars, todoVars>>

update_book(book) ==
  /\ app \in IdApps
  /\ BOOKS' = update_book_list(app, BOOKS, book)
  /\ last' = [op |-> "update_book", req |-> book,
              id |-> IF book.id = None THEN 0 ELSE book.id[1],
              found |-> \E i \in 1..Len(BOOKS) : IdEq(BOOKS[i].id, book.id),
              res |-> update_book_response(app, BOOKS, book)]
  /\ UNCHANGED <<app, givenId, sinceEmpty>>
  /\ UNCHANGED <<concVars, fileVars, todoVars>>

delete_book(book_id) ==
  /\ app \in IdApps
  /\ IF PathOk(app, book_id)
     THEN /\ BOOKS' = delete_book_list(BOOKS, book_id)
          /\ last' = [op |-> "delete_book", id |-> book_id,
                      found |-> FirstIndex(BOOKS, book_id) # 0,
                      wasLast |-> /\ BOOKS # <<>>
                                  /\ FirstIndex(BOOKS, book_id) = Len(BOOKS),
                      res |-> delete_book_response(app, BOOKS, book_id)]
          /\ givenId' = IF FirstIndex(BOOKS, book_id) = 0 THEN givenId
                        ELSE RemoveAt(givenId, FirstIndex(BOOKS, book_id))
          /\ sinceEmpty' = (BOOKS' = <<>>)
     ELSE /\ last' = [op |-> "delete_book", id |-> book_id,
                      found |-> FALSE, wasLast |-> FALSE, res |-> Err422]
          /\ UNCHANGED <<BOOKS, givenId, sinceEmpty>>
  /\ UNCHANGED app
  /\ UNCHANGED <<concVars, fileVars, todoVars>>

read_book(book_id) ==
  /\ app \in IdApps
  /\ last' = [op |-> "read_book", id |-> book_id,
              found |-> PathOk(app, book_id) /\ FirstIndex(BOOKS, book_id) # 0,
              res |-> IF PathOk(app, book_id)
                      THEN read_book_response(app, BOOKS, book_id)
                      ELSE Err422]
  /\ UNCHANGED <<app, BOOKS, givenId, sinceEmpty>>
  /\ UNCHANGED <<concVars, fileVars, todoVars>>

Ids(books) == [i \in 1..Len(books) |-> books[i].id]

Init ==
  /\ app \in IdApps
  /\ BOOKS = Catalog(app)
  /\ last = [op |-> "start", id |-> 0, found |-> FALSE, res |-> Null200]
  /\ givenId = Ids(BOOKS)
  /\ sinceEmpty = (BOOKS = <<>>)
  /\ NotConcurrent /\ NoFile /\ NoTodoApp

Next ==
  \/ \E r \in {b \in BookRequests(app) : b.id \in CreateIds} : create_book(r)
  \/ \E r \in BookRequests(app) : update_book(r)
  \/ \E n \in 0..MaxId : delete_book(n)
  \/ \E n \in 0..MaxId : read_book(n)

Spec == Init /\ [][Next]_vars

------------------------------------------------------------------------------
(* Project01/books.py and project_1/books.py: text, dicts and catalogs *)

TitleApps == {"Project01", "project_1"}

\* Bound on the length of the dict list: create_book is not taken on a list
\* of MaxBooks records.
MaxBooks == 8

\* A Python str is the sequence of its characters.  str.casefold() maps the
\* letters A..Z to a..z and leaves the other characters of these texts as
\* they are.
LowerOf ==
  ("A" :> "a") @@ ("B" :> "b") @@ ("C" :> "c") @@ ("D" :> "d") @@ ("E" :> "e") @@ ("F" :> "f") @@
  ("G" :> "g") @@ ("H" :> "h") @@ ("I" :> "i") @@ ("J" :> "j") @@ ("K" :> "k") @@ ("L" :> "l") @@
  ("M" :> "m") @@ ("N" :> "n") @@ ("O" :> "o") @@ ("P" :> "p") @@ ("Q" :> "q") @@ ("R" :> "r") @@
  ("S" :> "s") @@ ("T" :> "t") @@ ("U" :> "u") @@ ("V" :> "v") @@ ("W" :> "w") @@ ("X" :> "x") @@
  ("Y" :> "y") @@ ("Z" :> "z")

casefold(s) ==
  [i \in 1..Len(s) |-> IF s[i] \in DOMAIN LowerOf THEN LowerOf[s[i]] ELSE s[i]]

\* The texts of the two catalogs.
Title_One == <<"T", "i", "t", "l", "e", " ", "O", "n", "e">>
Title_Two == <<"T", "i", "t", "l", "e", " ", "T", "w", "o">>
Title_Three == <<"T", "i", "t", "l", "e", " ", "T", "h", "r", "e", "e">>
Title_Four == <<"T", "i", "t", "l", "e", " ", "F", "o", "u", "r">>
Title_Five == <<"T", "i", "t", "l", "e", " ", "F", "i", "v", "e">>
Title_Six == <<"T", "i", "t", "l", "e", " ", "S", "i", "x">>
Author_One == <<"A", "u", "t", "h", "o", "r", " ", "O", "n", "e">>
Author_Two == <<"A", "u", "t", "h", "o", "r", " ", "T", "w", "o">>
Author_Three == <<"A", "u", "t", "h", "o", "r", " ", "T", "h", "r", "e", "e">>
Author_three == <<"A", "u", "t", "h", "o", "r", " ", "t", "h", "r", "e", "e">>
Author_Four == <<"A", "u", "t", "h", "o", "r", " ", "F", "o", "u", "r">>
Author_Five == <<"A", "u", "t", "h", "o", "r", " ", "F", "i", "v", "e">>
Author_Six == <<"A", "u", "t", "h", "o", "r", " ", "S", "i", "x">>
science == <<"s", "c", "i", "e", "n", "c", "e">>
history == <<"h", "i", "s", "t", "o", "r", "y">>
math == <<"m", "a", "t", "h">>

\* The texts the clients send: spellings of catalog texts in another case,
\* and texts that are in no catalog.
TITLE_ONE == <<"T", "I", "T", "L", "E", " ", "O", "N", "E">>
title_one == <<"t", "i", "t", "l", "e", " ", "o", "n", "e">>
Title_Nine == <<"T", "i", "t", "l", "e", " ", "N", "i", "n", "e">>
AUTHOR_TWO == <<"A", "U", "T", "H", "O", "R", " ", "T", "W", "O">>
author_two == <<"a", "u", "t", "h", "o", "r", " ", "t", "w", "o">>
Nobody == <<"N", "o", "b", "o", "d", "y">>
SCIENCE == <<"S", "C", "I", "E", "N", "C", "E">>
Science == <<"S", "c", "i", "e", "n", "c", "e">>
poetry == <<"p", "o", "e", "t", "r", "y">>

\* The texts of the messages the handlers return.
Txt_created == <<"B", "o", "o", "k", " ", "c", "r", "e", "a", "t", "e", "d", " ", "s", "u", "c", "c", "e", "s", "s", "f", "u", "l", "l", "y">>
Txt_Book == <<"B", "o", "o", "k", " ", "'">>
Txt_updated == <<"'", " ", "u", "p", "d", "a", "t", "e", "d", " ", "s", "u", "c", "c", "e", "s", "s", "f", "u", "l", "l", "y">>
Txt_deleted == <<"'", " ", "d", "e", "l", "e", "t", "e", "d", " ", "s", "u", "c", "c", "e", "s", "s", "f", "u", "l", "l", "y">>
Txt_NoBooksBy == <<"N", "o", " ", "b", "o", "o", "k", "s", " ", "f", "o", "u", "n", "d", " ", "b", "y", " ">>
Txt_TitleNotFound == <<"T", "i", "t", "l", "e", " ", "n", "o", "t", " ", "F", "o", "u", "n", "d">>
Txt_CategoryRequired == <<"T", "h", "e", " ", "c", "a", "t", "e", "g", "o", "r", "y", " ", "i", "s", " ", "r", "e", "q", "u", "i", "r", "e", "d", ".">>
Txt_NoBookWereFound == <<"N", "o", " ", "b", "o", "o", "k", " ", "w", "e", "r", "e", " ", "f", "o", "u", "n", "d", ".">>
Txt_AuthorOrCategory == <<"a", "u", "t", "h", "o", "r", " ", "o", "r", " ", "c", "a", "t", "e", "g", "o", "r", "y", " ", "i", "s", " ", "r", "e", "q", "u", "i", "r", "e", "d">>
Txt_TitleNotFoundLower == <<"T", "i", "t", "l", "e", " ", "n", "o", "t", " ", "f", "o", "u", "n", "d">>

BOOKS_Project01 ==
  << [title |-> Title_One, author |-> Author_One, category |-> science],
     [title |-> Title_Two, author |-> Author_Two, category |-> science],
     [title |-> Title_Three, author |-> Author_Three, category |-> history],
     [title |-> Title_Four, author |-> Author_Four, category |-> math],
     [title |-> Title_Five, author |-> Author_Five, category |-> math],
     [title |-> Title_Six, author |-> Author_Six, category |-> science] >>

BOOKS_project_1 ==
  << [title |-> Title_One, author |-> Author_One, category |-> science],
     [title |-> Title_Two, author |-> Author_Two, category |-> science],
     [title |-> Title_Three, author |-> Author_three, category |-> history],
     [title |-> Title_Four, author |-> Author_Four, category |-> math],
     [title |-> Title_Five, author |-> Author_Five, category |-> math],
     [title |-> Title_Six, author |-> Author_Two, category |-> math] >>

DictCatalog(a) == IF a = "Project01" THEN BOOKS_Project01 ELSE BOOKS_project_1

\* The JSON bodies sent to create_book and update_book (new_book=Body()):
\* objects with text values, one with a title only, one with all three
\* fields, one without a title.
Bodies ==
  { [title |-> TITLE_ONE],
    [title |-> Title_Nine, author |-> AUTHOR_TWO, category |-> Science],
    [author |-> Nobody] }

\* The values of the path and query parameters.
TitleQueries == {TITLE_ONE, title_one, Title_Nine}
AuthorQueries == {AUTHOR_TWO, author_two, Nobody}
CategoryQueries == {SCIENCE, science, poetry}

\* dict.get(k) is None when the key is absent: d has no k.
Has(d, k) == k \in DOMAIN d

\* "not d.get(k)": the key is absent or its text is empty.
Falsy(d, k) == ~Has(d, k) \/ d[k] = <<>>

\* d.update(o): the keys of o are set in d, the other keys of d stay.
dict_update(d, o) ==
  [k \in (DOMAIN d) \cup (DOMAIN o) |-> IF k \in DOMAIN o THEN o[k] ELSE d[k]]

\* d.get(k).casefold() == q.casefold(), for a d that has k
FoldEq(d, k, q) == casefold(d[k]) = casefold(q)

MinOf(S) == CHOOSE m \in S : \A x \in S : m <= x

RECURSIVE Filter(_, _)
\* The records of books at the indices in S, in list order.
Filter(books, S) ==
  IF books = <<>> THEN <<>>
  ELSE LET n == Len(books)
           front == Filter(SubSeq(books, 1, n - 1), S)
       IN IF n \in S THEN Append(front, books[n]) ELSE front

List200(items) == [status |-> 200, kind |-> "list", items |-> items]
Dict200(d) == [status |-> 200, kind |-> "dict", value |-> d]
\* An AttributeError ('NoneType' object has no attribute 'casefold') leaves
\* the handler: the server answers 500.
Err500 == [status |-> 500, kind |-> "AttributeError"]

------------------------------------------------------------------------------
(* Project01/books.py: the handlers *)

Idx(books) == 1..Len(books)

\* The index at which a "for book in BOOKS" scan by title ends: the first
\* record that has no title (book.get("title") is None, .casefold() raises)
\* or whose title matches; 0 when the scan runs off the end.
TitleStop_Project01(books, t) ==
  LET S == {i \in Idx(books) : ~Has(books[i], "title") \/ FoldEq(books[i], "title", t)}
  IN IF S = {} THEN 0 ELSE MinOf(S)

\* read_all_books(book_title): the inner loop repeats the scan of the outer
\* one, so the first matching record is returned and None otherwise.
read_all_books_Project01(books, book_title) ==
  LET i == TitleStop_Project01(books, book_title)
  IN IF i = 0 THEN Null200
     ELSE IF ~Has(books[i], "title") THEN Err500
     ELSE Dict200(books[i])

\* read_category_by_query(book_author, category)
read_category_by_query_Project01(books, book_author, category) ==
  LET raises(i) == \/ ~Has(books[i], "author")
                   \/ /\ FoldEq(books[i], "author", book_author)
                      /\ ~Has(books[i], "category")
      hit(i) == /\ FoldEq(books[i], "author", book_author)
                /\ FoldEq(books[i], "category", category)
  IN IF \E i \in Idx(books) : raises(i) THEN Err500
     ELSE List200(Filter(books, {i \in Idx(books) : hit(i)}))

\* get_author_books(author_name)
get_author_books_Project01(books, author_name) ==
  IF \E i \in Idx(books) : ~Has(books[i], "author") THEN Err500
  ELSE LET author_books ==
             Filter(books, {i \in Idx(books) : FoldEq(books[i], "author", author_name)})
       IN IF author_books # <<>> THEN List200(author_books)
          ELSE Dict200([message |-> Txt_NoBooksBy \o author_name])

\* An update_book that rebuilds the list: the first record whose title
\* matches is taken out, merged with the body and appended at the end.
update_book_Project01_moved(books, updated_book) ==
  LET i == IF Has(updated_book, "title")
           THEN TitleStop_Project01(books, updated_book.title) ELSE 0
  IN IF books = <<>> THEN [BOOKS |-> books, found |-> FALSE, res |-> Null200]
     ELSE IF ~Has(books[1], "title") \/ ~Has(updated_book, "title")
     THEN [BOOKS |-> books, found |-> FALSE, res |-> Err500]
     ELSE IF i = 0 THEN [BOOKS |-> books, found |-> FALSE, res |-> Null200]
     ELSE IF ~Has(books[i], "title")
     THEN [BOOKS |-> books, found |-> FALSE, res |-> Err500]
     ELSE [BOOKS |-> Append(RemoveAt(books, i), dict_update(books[i], updated_book)),
           found |-> TRUE,
           res |-> Dict200([message |-> Txt_Book \o updated_book.title \o Txt_updated])]

\* update_book(updated_book): the first record whose title matches is
\* merged with the body (book.update) and the handler returns.
update_book_Project01(books, updated_book) ==
  LET i == IF Has(updated_book, "title")
           THEN TitleStop_Project01(books, updated_book.title) ELSE 0
  IN IF books = <<>> THEN [BOOKS |-> books, found |-> FALSE, res |-> Null200]
     ELSE IF ~Has(books[1], "title") \/ ~Has(updated_book, "title")
     THEN [BOOKS |-> books, found |-> FALSE, res |-> Err500]
     ELSE IF i = 0 THEN [BOOKS |-> books, found |-> FALSE, res |-> Null200]
     ELSE IF ~Has(books[i], "title")
     THEN [BOOKS |-> books, found |-> FALSE, res |-> Err500]
     ELSE [BOOKS |-> [books EXCEPT ![i] = dict_update(books[i], updated_book)],
           found |-> TRUE,
           res |-> Dict200([message |-> Txt_Book \o updated_book.title \o Txt_updated])]

\* delete_book(book_title): BOOKS.remove(book) for the first record whose
\* title matches; the same message whether or not one was found.
delete_book_Project01(books, book_title) ==
  LET i == TitleStop_Project01(books, book_title)
      done == Dict200([message |-> Txt_Book \o book_title \o Txt_deleted])
  IN IF i = 0 THEN [BOOKS |-> books, found |-> FALSE, res |-> done]
     ELSE IF ~Has(books[i], "title")
     THEN [BOOKS |-> books, found |-> FALSE, res |-> Err500]
     ELSE [BOOKS |-> RemoveAt(books, i), found |-> TRUE, res |-> done]

------------------------------------------------------------------------------
(* project_1/books.py: the handlers *)

\* read_book_by_title(book_title)
read_book_by_title_project_1(books, book_title) ==
  LET S == {i \in Idx(books) :
              ~Falsy(books[i], "title") /\ FoldEq(books[i], "title", book_title)}
  IN IF S = {} THEN Dict200([Failed |-> Txt_TitleNotFound])
     ELSE Dict200(books[MinOf(S)])

\* read_category_query(book_category): the stored category is casefolded,
\* the query is compared as it came.
read_category_query_project_1(books, book_category) ==
  IF \E i \in Idx(books) : Falsy(books[i], "category")
  THEN Dict200([Error |-> Txt_CategoryRequired])
  ELSE LET book_list ==
             Filter(books, {i \in Idx(books) :
                              casefold(books[i].category) = book_category})
       IN IF book_list # <<>> THEN List200(book_list)
          ELSE Dict200([NotFound |-> Txt_NoBookWereFound])

\* read_author_category_by_query(book_author, book_category)
read_author_category_by_query_project_1(books, book_author, book_category) ==
  LET failed(i) == Falsy(books[i], "author") /\ book_category = <<>>
      raises(i) == /\ ~failed(i)
                   /\ \/ ~Has(books[i], "author")
                      \/ /\ casefold(books[i].author) = book_author
                         /\ ~Has(books[i], "category")
      hit(i) == /\ casefold(books[i].author) = book_author
                /\ casefold(books[i].category) = book_category
      S == {i \in Idx(books) : failed(i) \/ raises(i)}
  IN IF S # {}
     THEN IF failed(MinOf(S)) THEN Dict200([Failed |-> Txt_AuthorOrCategory])
          ELSE Err500
     ELSE LET book_list == Filter(books, {i \in Idx(books) : hit(i)})
          IN IF book_list # <<>> THEN List200(book_list)
             ELSE Dict200([NotFound |-> Txt_NoBookWereFound])

\* update_book(update_book): every record whose title matches is replaced
\* by the body; the loop returns the error dict at the first record without
\* a title, or at the first record when the body has none.
update_book_project_1(books, body) ==
  LET S == {i \in Idx(books) : Falsy(books[i], "title") \/ Falsy(body, "title")}
      stop == IF S = {} THEN Len(books) + 1 ELSE MinOf(S)
      hit(i) == i < stop /\ FoldEq(books[i], "title", body.title)
  IN [BOOKS |-> [i \in Idx(books) |-> IF hit(i) THEN body ELSE books[i]],
      found |-> \E i \in Idx(books) : hit(i),
      res |-> IF stop <= Len(books)
              THEN Dict200([Error |-> Txt_TitleNotFoundLower])
              ELSE Null200]

------------------------------------------------------------------------------
(* Project01 and project_1: the requests *)

read_by_title(book_title) ==
  /\ app \in TitleApps
  /\ last' = [op |-> "read_by_title", req |-> book_title, found |-> FALSE,
              res |-> IF app = "Project01"
                      THEN read_all_books_Project01(BOOKS, book_title)
                      ELSE read_book_by_title_project_1(BOOKS, book_title)]
  /\ UNCHANGED <<app, BOOKS, givenId, sinceEmpty>>
  /\ UNCHANGED <<concVars, fileVars, todoVars>>

get_author_books(author_name) ==
  /\ app = "Project01"
  /\ last' = [op |-> "get_author_books", req |-> author_name, found |-> FALSE,
              res |-> get_author_books_Project01(BOOKS, author_name)]
  /\ UNCHANGED <<app, BOOKS, givenId, sinceEmpty>>
  /\ UNCHANGED <<concVars, fileVars, todoVars>>

read_category_query(book_category) ==
  /\ app = "project_1"
  /\ last' = [op |-> "read_category_query", req |-> book_category, found |-> FALSE,
              res |-> read_category_query_project_1(BOOKS, book_category)]
  /\ UNCHANGED <<app, BOOKS, givenId, sinceEmpty>>
  /\ UNCHANGED <<concVars, fileVars, todoVars>>

read_author_category(book_author, category) ==
  /\ app \in TitleApps
  /\ last' = [op |-> "read_author_category", req |-> <<book_author, category>>,
              found |-> FALSE,
              res |-> IF app = "Project01"
                      THEN read_category_by_query_Project01(BOOKS, book_author, category)
                      ELSE read_author_category_by_query_project_1(BOOKS, book_author, category)]
  /\ UNCHANGED <<app, BOOKS, givenId, sinceEmpty>>
  /\ UNCHANGED <<concVars, fileVars, todoVars>>

create_book_dict(new_book) ==
  /\ app \in TitleApps
  /\ Len(BOOKS) < MaxBooks
  /\ BOOKS' = Append(BOOKS, new_book)
  /\ last' = [op |-> "create_book", req |-> new_book, found |-> FALSE,
              res |-> IF app = "Project01"
                      THEN Dict200([message |-> Txt_created]) ELSE Null200]
  /\ UNCHANGED <<app, givenId, sinceEmpty>>
  /\ UNCHANGED <<concVars, fileVars, todoVars>>

update_book_dict(updated_book) ==
  LET r == IF app = "Project01" THEN update_book_Project01(BOOKS, updated_book)
           ELSE update_book_project_1(BOOKS, updated_book)
  IN /\ app \in TitleApps
     /\ BOOKS' = r.BOOKS
     /\ last' = [op |-> "update_book", req |-> updated_book,
                 found |-> r.found, res |-> r.res]
     /\ UNCHANGED <<app, givenId, sinceEmpty>>
     /\ UNCHANGED <<concVars, fileVars, todoVars>>

delete_book_dict(book_title) ==
  LET r == delete_book_Project01(BOOKS, book_title)
  IN /\ app = "Project01"
     /\ BOOKS' = r.BOOKS
     /\ last' = [op |-> "delete_book", req |-> book_title,
                 found |-> r.found, res |-> r.res]
     /\ UNCHANGED <<app, givenId, sinceEmpty>>
     /\ UNCHANGED <<concVars, fileVars, todoVars>>

InitDict ==
  /\ app \in TitleApps
  /\ BOOKS = DictCatalog(app)
  /\ last = [op |-> "start", req |-> <<>>, found |-> FALSE, res |-> Null200]
  /\ givenId = <<>>
  /\ sinceEmpty = FALSE
  /\ NotConcurrent /\ NoFile /\ NoTodoApp

NextDict ==
  \/ \E t \in TitleQueries : read_by_title(t)
  \/ \E a \in AuthorQueries : get_author_books(a)
  \/ \E c \in CategoryQueries : read_category_query(c)
  \/ \E a \in AuthorQueries, c \in CategoryQueries : read_author_category(a, c)
  \/ \E b \in Bodies : create_book_dict(b)
  \/ \E b \in Bodies : update_book_dict(b)
  \/ \E t \in TitleQueries : delete_book_dict(t)

SpecDict == InitDict /\ [][NextDict]_vars

------------------------------------------------------------------------------
(* Project02/books2.py and book_project/book.py under concurrent requests *)

\* The connections on which requests arrive at the one event loop.
Clients == {"c1", "c2"}

\* The ids the concurrent requests address: the end of the id range.
ConcIds == (MaxId - 2)..MaxId

Idle == [pc |-> "idle"]

\* Whether a started handler can be suspended before it returns.  The
\* handlers are "async def" and their bodies contain no await: once the event
\* loop has started one it runs to its return, and only then is another
\* coroutine resumed.
Yields_everywhere(r) == TRUE

Yields(r) == FALSE

\* The event loop can run a step for connection c.
Runnable(c) ==
  \A d \in Clients \ {c} : inflight[d].pc = "idle" \/ Yields(inflight[d])

Answer(c, op, res) == [op |-> op, client |-> c, res |-> res]

\* create_book, first half: Book(**book_request.model_dump()) and
\* find_book_id(new_book), which reads the id of the last element.
create_book_find(c, book_request) ==
  LET new_book == find_book_id(BOOKS, NewBook(app, book_request))
  IN /\ app \in IdApps
     /\ Runnable(c)
     /\ inflight[c] = Idle
     /\ new_book.id <= MaxId
     /\ inflight' = [inflight EXCEPT ![c] = [pc |-> "append", book |-> new_book]]
     /\ UNCHANGED <<app, last, bookVars, fileVars, todoVars>>

\* create_book, second half: BOOKS.append(...), and the handler returns.
create_book_append(c) ==
  /\ app \in IdApps
  /\ Runnable(c)
  /\ inflight[c].pc = "append"
  /\ BOOKS' = Append(BOOKS, inflight[c].book)
  /\ last' = Answer(c, "create_book", Null200)
  /\ inflight' = [inflight EXCEPT ![c] = Idle]
  /\ UNCHANGED <<app, givenId, sinceEmpty, fileVars, todoVars>>

\* update_book, first half: the loop finds the index of the record with the
\* id of the body; with no such record the handler returns.
update_book_scan(c, book) ==
  LET i == IF book.id = None THEN 0 ELSE FirstIndex(BOOKS, book.id[1])
  IN /\ app \in IdApps
     /\ Runnable(c)
     /\ inflight[c] = Idle
     /\ IF i = 0
        THEN /\ last' = Answer(c, "update_book", update_book_response(app, BOOKS, book))
             /\ UNCHANGED inflight
        ELSE /\ inflight' = [inflight EXCEPT ![c] =
                               [pc |-> "store", book |-> book, i |-> i,
                                res |-> update_book_response(app, BOOKS, book)]]
             /\ UNCHANGED last
     /\ UNCHANGED <<app, bookVars, fileVars, todoVars>>

\* update_book, second half: BOOKS[i] = book (an IndexError when the list
\* has no index i any more), and the handler returns.
update_book_store(c) ==
  LET r == inflight[c]
  IN /\ app \in IdApps
     /\ Runnable(c)
     /\ r.pc = "store"
     /\ IF r.i <= Len(BOOKS)
        THEN /\ BOOKS' = [BOOKS EXCEPT ![r.i] = Stored(r.book)]
             /\ last' = Answer(c, "update_book", r.res)
        ELSE /\ UNCHANGED BOOKS
             /\ last' = Answer(c, "update_book", [status |-> 500, kind |-> "IndexError"])
     /\ inflight' = [inflight EXCEPT ![c] = Idle]
     /\ UNCHANGED <<app, givenId, sinceEmpty, fileVars, todoVars>>

\* delete_book, first half: the loop finds the index of the record with the
\* id; with no such record the handler returns.
delete_book_scan(c, book_id) ==
  LET i == FirstIndex(BOOKS, book_id)
  IN /\ app \in IdApps
     /\ Runnable(c)
     /\ inflight[c] = Idle
     /\ PathOk(app, book_id)
     /\ IF i = 0
        THEN /\ last' = Answer(c, "delete_book", delete_book_response(app, BOOKS, book_id))
             /\ UNCHANGED inflight
        ELSE /\ inflight' = [inflight EXCEPT ![c] =
                               [pc |-> "del", id |-> book_id, i |-> i,
                                res |-> delete_book_response(app, BOOKS, book_id)]]
             /\ UNCHANGED last
     /\ UNCHANGED <<app, bookVars, fileVars, todoVars>>

\* delete_book, second half: del BOOKS[i] / BOOKS.pop(i) (an IndexError when
\* the list has no index i any more), and the handler returns.
delete_book_del(c) ==
  LET r == inflight[c]
  IN /\ app \in IdApps
     /\ Runnable(c)
     /\ r.pc = "del"
     /\ IF r.i <= Len(BOOKS)
        THEN /\ BOOKS' = RemoveAt(BOOKS, r.i)
             /\ last' = Answer(c, "delete_book", r.res)
        ELSE /\ UNCHANGED BOOKS
             /\ last' = Answer(c, "delete_book", [status |-> 500, kind |-> "IndexError"])
     /\ inflight' = [inflight EXCEPT ![c] = Idle]
     /\ UNCHANGED <<app, givenId, sinceEmpty, fileVars, todoVars>>

InitConc ==
  /\ app \in IdApps
  /\ BOOKS = Catalog(app)
  /\ last = [op |-> "start", client |-> "", res |-> Null200]
  /\ givenId = Ids(BOOKS)
  /\ sinceEmpty = FALSE
  /\ inflight = [c \in Clients |-> Idle]
  /\ NoFile /\ NoTodoApp

ConcRequests(a) == {b \in BookRequests(a) : b.id \in {Some(n) : n \in ConcIds}}

NextConc ==
  \E c \in Clients :
    \/ \E r \in {b \in BookRequests(app) : b.id = None} : create_book_find(c, r)
    \/ create_book_append(c)
    \/ \E r \in ConcRequests(app) : update_book_scan(c, r)
    \/ update_book_store(c)
    \/ \E n \in ConcIds : delete_book_scan(c, n)
    \/ delete_book_del(c)

SpecConc == InitConc /\ [][NextConc]_vars

------------------------------------------------------------------------------
(* microservices_project: user_service/app.py and query_service/app.py *)

\* The worker threads of the thread pool that runs the "def" handlers.
Workers == {"t1", "t2"}

\* The bodies sent to POST /register: class User, a name and an email.  The
\* names and emails have the same lengths, so that every entry takes the
\* same room in the file.
UserBodies ==
  { [name |-> "Ana", email |-> "ana@x.io"],
    [name |-> "Bia", email |-> "bia@x.io"],
    [name |-> "Ada", email |-> "ana@x.io"] }

Emails == {u.email : u \in UserBodies} \cup {"eve@x.io"}

\* The file users.json: the list last written from offset 0 (users), the
\* length of the file in entries (size), and whether its text is not JSON
\* (broken): the tail of a longer text left behind a shorter one, a text cut
\* short, or NUL padding.  It is created holding [].
EmptyFile == [users |-> <<>>, size |-> 0, broken |-> FALSE]

\* json.load(f) in register_user: the list, or [] on a JSONDecodeError.
LoadOrEmpty(f) == IF f.broken THEN <<>> ELSE f.users

\* f.seek(0) and the flush of json.dump(users, f): the text of users is
\* written over the start of the file; what the file held beyond stays.
WriteAtStart(f, users) ==
  [users |-> users,
   size |-> IF f.size > Len(users) THEN f.size ELSE Len(users),
   broken |-> f.size > Len(users)]

\* f.truncate(): the file is cut (or padded) to the end of the text this
\* handle wrote, n entries long.
TruncateAt(f, n) ==
  [users |-> f.users,
   size |-> n,
   broken |-> IF f.size = n THEN f.broken
              ELSE IF f.size > n THEN Len(f.users) # n
              ELSE TRUE]

HTTPException(status_code, detail) ==
  [status |-> status_code, kind |-> "HTTPException", detail |-> detail]

\* "except Exception as e: raise HTTPException(500, f'Internal error: {e}')":
\* what leaves the handler when e was raised inside its try block.  An
\* HTTPException is an Exception, so it is caught like any other.
InternalError(e) == HTTPException(500, <<"Internal error", e.status, e.detail>>)

HasEmail(users, email) == \E i \in 1..Len(users) : users[i].email = email

\* register_user, from open() to the check: the file is read, and a call
\* whose email is in the list raises inside the try block.
register_user_load(t, user) ==
  LET users == LoadOrEmpty(users_json)
  IN /\ app = "user_service"
     /\ threads[t].pc = "idle"
     /\ IF HasEmail(users, user.email)
        THEN /\ last' = [op |-> "register_user", user |-> user, exists |-> TRUE,
                         res |-> InternalError(HTTPException(400, "User already exists")),
                         acked |-> last.acked]
             /\ UNCHANGED threads
        ELSE /\ threads' = [threads EXCEPT ![t] =
                              [pc |-> "write", user |-> user,
                               users |-> Append(users, user)]]
             /\ UNCHANGED last
     /\ UNCHANGED <<app, users_json, bookVars, concVars, todoVars>>

\* register_user: the text of the list reaches the file.
register_user_write(t) ==
  /\ app = "user_service"
  /\ threads[t].pc = "write"
  /\ users_json' = WriteAtStart(users_json, threads[t].users)
  /\ threads' = [threads EXCEPT ![t].pc = "truncate"]
  /\ UNCHANGED <<app, last, bookVars, concVars, todoVars>>

\* register_user: f.truncate(), the file is closed and the success message
\* returned.
register_user_truncate(t) ==
  /\ app = "user_service"
  /\ threads[t].pc = "truncate"
  /\ users_json' = TruncateAt(users_json, Len(threads[t].users))
  /\ last' = [op |-> "register_user", user |-> threads[t].user, exists |-> FALSE,
              res |-> [status |-> 200, kind |-> "message", name |-> threads[t].user.name],
              acked |-> last.acked \cup {threads[t].user}]
  /\ threads' = [threads EXCEPT ![t] = [pc |-> "idle"]]
  /\ UNCHANGED <<app, bookVars, concVars, todoVars>>

\* find_user(email) of the query service, which reads the same file.
find_user_response(f, email) ==
  IF f.broken
  THEN InternalError(HTTPException(404, "Database empty."))
  ELSE IF HasEmail(f.users, email)
  THEN [status |-> 200, kind |-> "user",
        user |-> f.users[CHOOSE i \in 1..Len(f.users) :
                           /\ f.users[i].email = email
                           /\ \A j \in 1..(i - 1) : f.users[j].email # email]]
  ELSE InternalError(HTTPException(404, "User not found"))

find_user(email) ==
  /\ app = "user_service"
  /\ last' = [op |-> "find_user", email |-> email,
              exists |-> ~users_json.broken /\ HasEmail(users_json.users, email),
              res |-> find_user_response(users_json, email),
              acked |-> last.acked]
  /\ UNCHANGED <<app, users_json, threads, bookVars, concVars, todoVars>>

InitUsers ==
  /\ app = "user_service"
  /\ users_json = EmptyFile
  /\ threads = [t \in Workers |-> [pc |-> "idle"]]
  /\ last = [op |-> "start", res |-> Null200, acked |-> {}]
  /\ BOOKS = <<>> /\ givenId = <<>> /\ sinceEmpty = FALSE
  /\ NotConcurrent /\ NoTodoApp

NextUsers ==
  \/ \E t \in Workers, u \in UserBodies : register_user_load(t, u)
  \/ \E t \in Workers : register_user_write(t)
  \/ \E t \in Workers : register_user_truncate(t)
  \/ \E e \in Emails : find_user(e)

SpecUsers == InitUsers /\ [][NextUsers]_vars

------------------------------------------------------------------------------
(* TodoApp: routers/auth.py and routers/todos.py.  The tables Users and
   Todos hold the columns the handlers set; the clock counts minutes. *)

MaxUsers == 2
MaxTodos == 2
MaxNow == 60

\* timedelta(minutes=20), the lifetime login_for_access_token asks for.
ACCESS_TOKEN_MINUTES == 20

Usernames == {"alice", "bob"}

\* CreateUserRequest: the fields the claims depend on.
CreateUserRequests ==
  {[username |-> n, password |-> "right-pw", role |-> "user"] : n \in Usernames}

Passwords == {"right-pw", "wrong-pw"}

\* pwd_context.hash and pwd_context.verify.
hash(password) == <<"argon2", password>>
verify(password, hashed_password) == hashed_password = hash(password)

\* db.query(Users).filter(Users.username == username).first()
FirstUser(username) ==
  LET I == {i \in 1..Len(Users) : Users[i].username = username}
  IN IF I = {} THEN None ELSE Some(Users[MinOf(I)])

\* authenticate_user: the user row, or None for the False it returns.
authenticate_user(username, password) ==
  LET user == FirstUser(username)
  IN IF user = None THEN None
     ELSE IF ~verify(password, user[1].hashed_password) THEN None
     ELSE user

\* jwt.encode(encode, SECRET_KEY): a token is its claims and whether its
\* signature was made with SECRET_KEY.
jwt_encode(claims) ==
  [sub |-> claims.sub, id |-> claims.id, exp |-> claims.exp, signed |-> TRUE]

\* craete_access_token(username, user_id, expires_date) at time t.
craete_access_token(username, user_id, expires_date, t) ==
  LET encode == [sub |-> Some(username), id |-> Some(user_id)]
      expires == t + expires_date + expires_date
  IN jwt_encode([sub |-> encode.sub, id |-> encode.id, exp |-> Some(expires)])

\* Tokens a client can make without logging in: SECRET_KEY is in the
\* source, so it can sign any claims; the last one is signed with another key.
OwnTokens ==
  { [sub |-> Some("bob"), id |-> None, exp |-> None, signed |-> TRUE],
    [sub |-> None, id |-> Some(1), exp |-> None, signed |-> TRUE],
    [sub |-> None, id |-> None, exp |-> None, signed |-> TRUE],
    [sub |-> Some("bob"), id |-> Some(1), exp |-> None, signed |-> FALSE] }

Unauthorized == HTTPException(401, "Could not validation user")

\* get_current_user(token) at time t, for the token in the cookie (or the
\* Authorization header): the user dict, or the HTTPException it raises.
\* jwt.decode raises a JWTError for a bad signature and for an exp in the
\* past; without a token nothing is decoded.
get_current_user(cookie, t) ==
  IF cookie = None THEN Unauthorized
  ELSE LET token == cookie[1]
       IN IF ~token.signed \/ (token.exp # None /\ token.exp[1] < t)
          THEN Unauthorized
          ELSE IF token.sub = None /\ token.id = None
          THEN Unauthorized
          ELSE [username |-> token.sub, id |-> token.id]

\* TodoRequest bodies that pass its Field() checks.
TodoRequests ==
  { [title |-> "Buy milk", description |-> "2 litres", priority |-> 3, complete |-> FALSE],
    [title |-> "Buy milk", description |-> "2 litres", priority |-> 1, complete |-> TRUE] }

TodoIds == 0..MaxTodos

\* Todos(**todo_request.model_dump(), owner_id=...) with the id the
\* database gives the row.
NewTodo(id, todo_request, owner_id) ==
  [id |-> id, title |-> todo_request.title, description |-> todo_request.description,
   priority |-> todo_request.priority, complete |-> todo_request.complete,
   owner_id |-> owner_id]

\* db.query(Todos).filter(Todos.owner_id == owner_id).all()
OwnedBy(rows, owner_id) ==
  LET I == {i \in 1..Len(rows) : rows[i].owner_id = owner_id}
  IN Filter(rows, I)

\* db.query(Todos).filter(Todos.id == todo_id).first(): its position, 0 for None.
ById(rows, todo_id) ==
  LET I == {i \in 1..Len(rows) : rows[i].id = todo_id}
  IN IF I = {} THEN 0 ELSE MinOf(I)

\* ...filter(Todos.id == todo_id).filter(Todos.owner_id == owner_id).first()
ByIdAndOwner(rows, todo_id, owner_id) ==
  LET I == {i \in 1..Len(rows) : rows[i].id = todo_id /\ rows[i].owner_id = owner_id}
  IN IF I = {} THEN 0 ELSE MinOf(I)

Todos200(todos) == [status |-> 200, kind |-> "todos", todos |-> todos]
NoContent(status_code) == [status |-> status_code, kind |-> "null", todos |-> <<>>]
Failed(e) == [status |-> e.status, kind |-> "HTTPException", detail |-> e.detail, todos |-> <<>>]
redirect_to_login == [status |-> 302, kind |-> "redirect", url |-> "/auth/login-page", todos |-> <<>>]
Invalid == [status |-> 422, kind |-> "validation", todos |-> <<>>]
Page200(name, todos) == [status |-> 200, kind |-> name, todos |-> todos]

todoRest == <<bookVars, concVars, fileVars>>

\* POST /auth/: the row is added with the next id of the table.  A username
\* already in the table is not drawn.
create_user(create_user_request) ==
  /\ app = "TodoApp"
  /\ Len(Users) < MaxUsers
  /\ FirstUser(create_user_request.username) = None
  /\ Users' = Append(Users,
       [id |-> Len(Users) + 1,
        username |-> create_user_request.username,
        role |-> create_user_request.role,
        hashed_password |-> hash(create_user_request.password),
        is_active |-> TRUE])
  /\ last' = [op |-> "create_user", res |-> NoContent(201)]
  /\ UNCHANGED <<app, Todos, now, cookies, todoRest>>

\* POST /auth/token; the client keeps the token it is given.
login_for_access_token(username, password) ==
  LET user == authenticate_user(username, password)
      token == craete_access_token(user[1].username, user[1].id, ACCESS_TOKEN_MINUTES, now)
  IN /\ app = "TodoApp"
     /\ IF user = None
        THEN /\ last' = [op |-> "login_for_access_token", t |-> now,
                         res |-> Failed(Unauthorized)]
             /\ UNCHANGED cookies
        ELSE /\ last' = [op |-> "login_for_access_token", t |-> now,
                         res |-> [status |-> 200, kind |-> "Token",
                                  access_token |-> token, token_type |-> "bearer"]]
             /\ cookies' = Some(token)
     /\ UNCHANGED <<app, Users, Todos, now, todoRest>>

\* The client replaces its token by one it made itself.
send_own_token(token) ==
  /\ app = "TodoApp"
  /\ cookies' = Some(token)
  /\ last' = [op |-> "send_own_token", res |-> NoContent(200)]
  /\ UNCHANGED <<app, Users, Todos, now, todoRest>>

\* datetime.now(timezone.utc) moves on.
tick ==
  /\ app = "TodoApp"
  /\ now + ACCESS_TOKEN_MINUTES <= MaxNow
  /\ now' = now + ACCESS_TOKEN_MINUTES
  /\ UNCHANGED <<app, Users, Todos, cookies, last, todoRest>>

read_all ==
  LET user == get_current_user(cookies, now)
  IN /\ app = "TodoApp"
     /\ last' = [op |-> "read_all", auth |-> user, id |-> 0,
                 res |-> IF user = Unauthorized THEN Failed(Unauthorized)
                         ELSE Todos200(OwnedBy(Todos.rows, user.id))]
     /\ UNCHANGED <<app, Users, Todos, now, cookies, todoRest>>

render_todo_page ==
  LET user == get_current_user(cookies, now)
  IN /\ app = "TodoApp"
     /\ IF user = Unauthorized
        THEN /\ last' = [op |-> "render_todo_page", auth |-> user, id |-> 0,
                         res |-> redirect_to_login]
             /\ cookies' = None
        ELSE /\ last' = [op |-> "render_todo_page", auth |-> user, id |-> 0,
                         res |-> Page200("todo.html", OwnedBy(Todos.rows, user.id))]
             /\ UNCHANGED cookies
     /\ UNCHANGED <<app, Users, Todos, now, todoRest>>

render_edit_todo_page(todo_id) ==
  LET user == get_current_user(cookies, now)
      i == ById(Todos.rows, todo_id)
  IN /\ app = "TodoApp"
     /\ IF user = Unauthorized
        THEN /\ last' = [op |-> "render_edit_todo_page", auth |-> user, id |-> todo_id,
                         res |-> redirect_to_login]
             /\ cookies' = None
        ELSE /\ last' = [op |-> "render_edit_todo_page", auth |-> user, id |-> todo_id,
                         res |-> Page200("edit-todo.html",
                                         IF i = 0 THEN <<>> ELSE <<Todos.rows[i]>>)]
             /\ UNCHANGED cookies
     /\ UNCHANGED <<app, Users, Todos, now, todoRest>>

read_todo(todo_id) ==
  LET user == get_current_user(cookies, now)
      i == ByIdAndOwner(Todos.rows, todo_id, user.id)
  IN /\ app = "TodoApp"
     /\ last' = [op |-> "read_todo", auth |-> user, id |-> todo_id,
                 res |-> IF user = Unauthorized THEN Failed(Unauthorized)
                         ELSE IF ~(todo_id > 0) THEN Invalid
                         ELSE IF i # 0 THEN Todos200(<<Todos.rows[i]>>)
                         ELSE Failed(HTTPException(404, "Todo not found."))]
     /\ UNCHANGED <<app, Users, Todos, now, cookies, todoRest>>

create_todo(todo_request) ==
  LET user == get_current_user(cookies, now)
  IN /\ app = "TodoApp"
     /\ IF user = Unauthorized
        THEN /\ last' = [op |-> "create_todo", auth |-> user, id |-> 0,
                         res |-> Failed(Unauthorized)]
             /\ UNCHANGED Todos
        ELSE /\ Todos.serial < MaxTodos
             /\ Todos' = [rows |-> Append(Todos.rows,
                                     NewTodo(Todos.serial + 1, todo_request, user.id)),
                          serial |-> Todos.serial + 1]
             /\ last' = [op |-> "create_todo", auth |-> user, id |-> Todos.serial + 1,
                         res |-> NoContent(201)]
     /\ UNCHANGED <<app, Users, now, cookies, todoRest>>

update_todo(todo_id, todo_request) ==
  LET user == get_current_user(cookies, now)
      i == ByIdAndOwner(Todos.rows, todo_id, user.id)
  IN /\ app = "TodoApp"
     /\ IF user # Unauthorized /\ todo_id > 0 /\ i # 0
        THEN /\ Todos' = [Todos EXCEPT !.rows[i] =
                            [@ EXCEPT !.title = todo_request.title,
                                      !.description = todo_request.description,
                                      !.complete = todo_request.complete,
                                      !.priority = todo_request.priority]]
             /\ last' = [op |-> "update_todo", auth |-> user, id |-> todo_id,
                         res |-> NoContent(204)]
        ELSE /\ last' = [op |-> "update_todo", auth |-> user, id |-> todo_id,
                         res |-> IF user = Unauthorized THEN Failed(Unauthorized)
                                 ELSE IF ~(todo_id > 0) THEN Invalid
                                 ELSE Failed(HTTPException(404, "Todo not found"))]
             /\ UNCHANGED Todos
     /\ UNCHANGED <<app, Users, now, cookies, todoRest>>

delete_todo(todo_id) ==
  LET user == get_current_user(cookies, now)
      i == ByIdAndOwner(Todos.rows, todo_id, user.id)
      gone == {k \in 1..Len(Todos.rows) :
                 Todos.rows[k].id = todo_id /\ Todos.rows[k].owner_id = user.id}
  IN /\ app = "TodoApp"
     /\ IF user # Unauthorized /\ todo_id > 0 /\ i # 0
        THEN /\ Todos' = [Todos EXCEPT !.rows =
                            Filter(Todos.rows, (1..Len(Todos.rows)) \ gone)]
             /\ last' = [op |-> "delete_todo", auth |-> user, id |-> todo_id,
                         res |-> NoContent(204)]
        ELSE /\ last' = [op |-> "delete_todo", auth |-> user, id |-> todo_id,
                         res |-> IF user = Unauthorized THEN Failed(Unauthorized)
                                 ELSE IF ~(todo_id > 0) THEN Invalid
                                 ELSE Failed(HTTPException(404, "Todo not found."))]
             /\ UNCHANGED Todos
     /\ UNCHANGED <<app, Users, now, cookies, todoRest>>

InitTodo ==
  /\ app = "TodoApp"
  /\ Users = <<>>
  /\ Todos = [rows |-> <<>>, serial |-> 0]
  /\ now = 0
  /\ cookies = None
  /\ last = [op |-> "start", res |-> Null200]
  /\ BOOKS = <<>> /\ givenId = <<>> /\ sinceEmpty = FALSE
  /\ NotConcurrent /\ NoFile

NextTodo ==
  \/ \E r \in CreateUserRequests : create_user(r)
  \/ \E n \in Usernames, p \in Passwords : login_for_access_token(n, p)
  \/ \E token \in OwnTokens : send_own_token(token)
  \/ tick
  \/ read_all
  \/ render_todo_page
  \/ \E todo_id \in TodoIds : render_edit_todo_page(todo_id)
  \/ \E todo_id \in TodoIds : read_todo(todo_id)
  \/ \E r \in TodoRequests : create_todo(r)
  \/ \E todo_id \in TodoIds, r \in TodoRequests : update_todo(todo_id, r)
  \/ \E todo_id \in TodoIds : delete_todo(todo_id)

SpecTodo == InitTodo /\ [][NextTodo]_vars

------------------------------------------------------------------------------
(* Properties of the id-keyed stores (Project02, book_project) *)

IsIdStore == app \in IdApps

IdSet(books) == {books[i].id : i \in 1..Len(books)}

MaxOf(S) == CHOOSE m \in S : \A x \in S : x <= m

Positions == 1..Len(BOOKS)

\* C1: no two records of the store have the same id, and every record still
\* in the store has the id it was given when it was created.
C1_UniqueImmutableIds ==
  IsIdStore =>
    /\ \A i, j \in Positions : BOOKS[i].id = BOOKS[j].id => i = j
    /\ Ids(BOOKS) = givenId

\* C1 witness: a store that has seen an insert, a delete and a replace and
\* still holds the inserted and the replaced record.
C1_Witness ==
  /\ IsIdStore
  /\ Len(BOOKS) >= 3
  /\ Len(BOOKS) < BOOKS[Len(BOOKS)].id
  /\ BOOKS[Len(BOOKS)].id > Len(Catalog(app))
  /\ \E i \in Positions : BOOKS[i].cls = "BookRequest"

\* C2: the id find_book_id computes from the last element is 1 on the empty
\* store and otherwise the largest id in the store plus 1, and the id the
\* last create_book assigned is the largest id now in the store.
C2_InsertAssignsMaxPlusOne ==
  IsIdStore =>
    /\ find_book_id(BOOKS, [id |-> None]).id
         = IF BOOKS = <<>> THEN 1 ELSE MaxOf(IdSet(BOOKS)) + 1
    /\ last.op = "create_book" =>
         /\ last.id = MaxOf(IdSet(BOOKS))
         /\ \A i \in 1..(Len(BOOKS) - 1) : BOOKS[i].id < last.id

\* C2 witness: a create_book after a delete from the middle and a replace.
C2_Witness ==
  /\ IsIdStore
  /\ last.op = "create_book"
  /\ Len(BOOKS) >= 3
  /\ \E i \in 1..(Len(BOOKS) - 1) : BOOKS[i + 1].id > BOOKS[i].id + 1
  /\ \E i \in Positions : BOOKS[i].cls = "BookRequest"

OneToN(n) == [i \in 1..n |-> i]

\* C3: from the empty store and with no delete_book in between, the n
\* records created carry the ids 1..n in insertion order, the last one n.
\* (The store is empty once every catalog entry has been deleted.)
C3_IdsOneToN ==
  (IsIdStore /\ sinceEmpty) =>
    /\ Ids(BOOKS) = OneToN(Len(BOOKS))
    /\ last.op = "create_book" => last.id = Len(BOOKS)

\* C3 witness: three or more inserts from the empty store, no delete.
C3_Witness ==
  /\ IsIdStore
  /\ sinceEmpty
  /\ last.op = "create_book"
  /\ Len(BOOKS) >= 3

\* C4: right after create_book, the new record sits at the end with the
\* fields of the request and the assigned id, and read_book of that id
\* returns this record.
C4_InsertThenFind ==
  (IsIdStore /\ last.op = "create_book") =>
    /\ BOOKS[Len(BOOKS)] = [NewBook(app, last.req) EXCEPT !.id = last.id]
    /\ read_book_response(app, BOOKS, last.id) = Book200(BOOKS[Len(BOOKS)])

\* C4 witness: a create_book whose body carried the id of a record that is
\* in the store with other contents.
C4_Witness ==
  /\ IsIdStore
  /\ last.op = "create_book"
  /\ last.req.id = Some(1)
  /\ \E i \in 1..(Len(BOOKS) - 1) :
       BOOKS[i].id = 1 /\ BOOKS[i].title # last.req.title

\* The responses update_book gives when it has replaced a record.
UpdateSuccessResponses(a) ==
  {update_book_response(a, <<Stored(r)>>, r) :
     r \in {b \in BookRequests(a) : b.id # None}}

\* The responses delete_book gives when it has removed a record.
DeleteSuccessResponses(a) ==
  {delete_book_response(a, <<[id |-> n]>>, n) : n \in 1..MaxId}

\* C5: delete_book of an id in the store removes exactly that record and
\* keeps the others in order; delete_book of an id that is not (any longer)
\* in the store leaves the store as it is and answers with a NotFound
\* result, one that no successful delete gives.
C5_DeleteStep ==
  (last'.op = "delete_book" /\ last'.res.status = 200) =>
    IF last'.found
    THEN /\ \E i \in Positions :
              BOOKS[i].id = last'.id /\ BOOKS' = RemoveAt(BOOKS, i)
         /\ last'.id \notin IdSet(BOOKS')
    ELSE BOOKS' = BOOKS

C5_DeleteNotFoundReported ==
  (IsIdStore /\ last.op = "delete_book" /\ ~last.found) =>
    last.res \notin DeleteSuccessResponses(app)

C5_DeleteExactlyOne == [][C5_DeleteStep]_vars /\ []C5_DeleteNotFoundReported

\* C6: update_book of an id in the store overwrites the record where it is:
\* same length, same id at every position, the replacement at the position
\* of the old record, every other position untouched.
C6_UpdateStep ==
  (last'.op = "update_book" /\ last'.found) =>
    /\ Len(BOOKS') = Len(BOOKS)
    /\ Ids(BOOKS') = Ids(BOOKS)
    /\ \E i \in Positions :
         /\ BOOKS[i].id = last'.id
         /\ BOOKS' = [BOOKS EXCEPT ![i] = Stored(last'.req)]

C6_ReplacePreservesPosition == [][C6_UpdateStep]_vars

\* C6 witness: an update_book has replaced a record that is not the last.
C6_Witness ==
  /\ IsIdStore
  /\ last.op = "update_book"
  /\ last.found
  /\ \E i \in 1..(Len(BOOKS) - 1) : BOOKS[i] = Stored(last.req)

\* C7: update_book with an id no record has (or with no id) leaves the
\* store as it is and answers with a NotFound result, one that no
\* successful update gives.
C7_UpdateStep ==
  (last'.op = "update_book" /\ ~last'.found) => BOOKS' = BOOKS

C7_UpdateNotFoundReported ==
  (IsIdStore /\ last.op = "update_book" /\ ~last.found) =>
    last.res \notin UpdateSuccessResponses(app)

C7_UpdateNotFound == [][C7_UpdateStep]_vars /\ []C7_UpdateNotFoundReported

\* C11 (as claimed): a create_book that follows the delete_book of the last
\* record gives the new record the id the deleted record had.
C11_ReusesDeletedId ==
  (IsIdStore /\ last.op = "create_book" /\ last.after # 0) =>
    last.id = last.after

\* C11 (amended): a create_book that follows the delete_book of the last
\* record gives the new record an id no larger than the deleted one; it is
\* the deleted record's id exactly when that id was one more than the id of
\* the record before it, or was 1 with no record before it.  No other
\* record of the store has the new id.
C11_ReusesDeletedIdWhenContiguous ==
  (IsIdStore /\ last.op = "create_book" /\ last.after # 0) =>
    /\ last.id <= last.after
    /\ last.id = last.after <=>
         IF Len(BOOKS) = 1 THEN last.after = 1
         ELSE BOOKS[Len(BOOKS) - 1].id + 1 = last.after
    /\ \A i \in 1..(Len(BOOKS) - 1) : BOOKS[i].id # last.id

\* C11 witness: the last record was deleted and the record created next has
\* its id, next to an older record.
C11_Witness ==
  /\ IsIdStore
  /\ last.op = "create_book"
  /\ last.after = last.id
  /\ Len(BOOKS) >= 2

------------------------------------------------------------------------------
(* Properties of the dict stores (Project01, project_1) *)

IsDictStore == app \in TitleApps

\* C8: after an update_book that found its record, the store holds a record
\* with exactly the fields and values of the body sent: a field of the old
\* record that the body omits is gone.
C8_WholeRecordReplace ==
  (IsDictStore /\ last.op = "update_book" /\ last.found) =>
    \E i \in Positions : BOOKS[i] = last.req

\* The records a lookup response carries.
Records(res) ==
  IF res.kind = "list" THEN {res.items[i] : i \in 1..Len(res.items)}
  ELSE IF res.kind = "dict" /\ \E i \in Positions : BOOKS[i] = res.value
  THEN {res.value}
  ELSE {}

SameFold(q1, q2) == casefold(q1) = casefold(q2)

\* C9: every text lookup is case-insensitive on both sides: two query values
\* that differ only in letter case get the same records, by title, by
\* author, by category and by author and category.
C9_CaseInsensitiveLookups ==
  IsDictStore =>
    /\ \A t1, t2 \in TitleQueries : SameFold(t1, t2) =>
         IF app = "Project01"
         THEN Records(read_all_books_Project01(BOOKS, t1))
                = Records(read_all_books_Project01(BOOKS, t2))
         ELSE Records(read_book_by_title_project_1(BOOKS, t1))
                = Records(read_book_by_title_project_1(BOOKS, t2))
    /\ \A a1, a2 \in AuthorQueries : (SameFold(a1, a2) /\ app = "Project01") =>
           Records(get_author_books_Project01(BOOKS, a1))
             = Records(get_author_books_Project01(BOOKS, a2))
    /\ \A c1, c2 \in CategoryQueries : (SameFold(c1, c2) /\ app = "project_1") =>
           Records(read_category_query_project_1(BOOKS, c1))
             = Records(read_category_query_project_1(BOOKS, c2))
    /\ \A a1, a2 \in AuthorQueries, c1, c2 \in CategoryQueries :
         (SameFold(a1, a2) /\ SameFold(c1, c2)) =>
           IF app = "Project01"
           THEN Records(read_category_by_query_Project01(BOOKS, a1, c1))
                  = Records(read_category_by_query_Project01(BOOKS, a2, c2))
           ELSE Records(read_author_category_by_query_project_1(BOOKS, a1, c1))
                  = Records(read_author_category_by_query_project_1(BOOKS, a2, c2))

\* The record has the field and its text equals q up to letter case.
FieldIs(d, k, q) == Has(d, k) /\ FoldEq(d, k, q)

\* C10: a field lookup that matches no record answers with the empty list
\* (no error, no sentinel payload) in every store state; on the empty
\* id store read_book answers not-found without an error.
C10_NoMatchIsEmptyList ==
  /\ IsDictStore =>
       /\ \A a \in AuthorQueries :
            (app = "Project01" /\ \A i \in Positions : ~FieldIs(BOOKS[i], "author", a))
              => get_author_books_Project01(BOOKS, a) = List200(<<>>)
       /\ \A c \in CategoryQueries :
            (app = "project_1" /\ \A i \in Positions : ~FieldIs(BOOKS[i], "category", c))
              => read_category_query_project_1(BOOKS, c) = List200(<<>>)
       /\ \A a \in AuthorQueries, c \in CategoryQueries :
            (\A i \in Positions :
               ~(FieldIs(BOOKS[i], "author", a) /\ FieldIs(BOOKS[i], "category", c)))
              => IF app = "Project01"
                 THEN read_category_by_query_Project01(BOOKS, a, c) = List200(<<>>)
                 ELSE read_author_category_by_query_project_1(BOOKS, a, c) = List200(<<>>)
  /\ (IsIdStore /\ BOOKS = <<>>) =>
       \A n \in 1..MaxId :
         /\ read_book_response(app, BOOKS, n).status = 200
         /\ read_book_response(app, BOOKS, n).kind # "book"

\* update_book of the running module, as a function of the list and the body.
UpdateDict(books, body) ==
  IF app = "Project01" THEN update_book_Project01(books, body)
  ELSE update_book_project_1(books, body)

\* C12: PUT update_book is idempotent: in every store state and for every
\* body, the same request applied a second time leaves the list the first
\* application produced and gives the same response.
C12_UpdateIdempotent ==
  IsDictStore =>
    \A b \in Bodies :
      LET once == UpdateDict(BOOKS, b)
          twice == UpdateDict(once.BOOKS, b)
      IN twice.BOOKS = once.BOOKS /\ twice.res = once.res

\* C12 witness: an update_book has changed a list in which two records carry
\* the title of the body, so that a second application has a choice.
C12_Witness ==
  /\ IsDictStore
  /\ last.op = "update_book"
  /\ last.found
  /\ Cardinality({i \in Positions : FieldIs(BOOKS[i], "title", last.req.title)}) >= 2
  /\ UpdateDict(BOOKS, last.req).BOOKS = BOOKS

\* The response is the error dict of the title-based update_book.
IsTitleError(res) ==
  res.kind = "dict" /\ res.value = [Error |-> Txt_TitleNotFoundLower]

\* C19: a title-based update_book of project_1 that answers
\* {"Error": "Title not found"} leaves the list as it was; one that answers
\* without an error has replaced every record whose title matches the body
\* up to letter case, and no other record.
C19_UpdateStep ==
  (app = "project_1" /\ last'.op = "update_book") =>
    IF IsTitleError(last'.res)
    THEN BOOKS' = BOOKS
    ELSE BOOKS' = [i \in Positions |->
                     IF FieldIs(BOOKS[i], "title", last'.req.title)
                     THEN last'.req ELSE BOOKS[i]]

C19_ErrorLeavesStore == [][C19_UpdateStep]_vars

\* A handler returns in this step: the connection c goes back to idle, or
\* the scan found nothing and answered at once.
Returns(c) ==
  /\ last' # last \/ inflight'[c] # inflight[c]
  /\ inflight'[c] = Idle
  /\ last'.client = c

\* The step in which the handler of connection c returns acts on the list as
\* the whole handler run at that moment would: nothing another request did
\* in between is undone or missed.
C14_AtomicStep ==
  \A c \in Clients :
    Returns(c) =>
      /\ inflight[c].pc = "append" =>
           BOOKS' = Append(BOOKS, find_book_id(BOOKS, inflight[c].book))
      /\ inflight[c].pc = "store" =>
           /\ BOOKS' = update_book_list(app, BOOKS, inflight[c].book)
           /\ last'.res = update_book_response(app, BOOKS, inflight[c].book)
      /\ inflight[c].pc = "del" =>
           /\ BOOKS' = delete_book_list(BOOKS, inflight[c].id)
           /\ last'.res = delete_book_response(app, BOOKS, inflight[c].id)
      /\ inflight[c].pc = "idle" => BOOKS' = BOOKS

C14_UniqueIds ==
  (IsIdStore /\ inflight # <<>>) =>
    \A i, j \in Positions : BOOKS[i].id = BOOKS[j].id => i = j

\* C14: under every interleaving of concurrent create_book, update_book and
\* delete_book requests each handler acts on the whole list at once, so the
\* outcome is that of the requests in the order in which they return: two
\* inserts never get the same id and no insert is lost.
C14_Atomic == [][C14_AtomicStep]_vars /\ []C14_UniqueIds

\* C14 witness: both connections have had a create_book answered, and the
\* list holds the two records created, one after the other.
C14_Witness ==
  /\ IsIdStore
  /\ inflight # <<>>
  /\ last.op = "create_book"
  /\ Len(BOOKS) >= 2
  /\ BOOKS[Len(BOOKS)].cls = "Book"
  /\ BOOKS[Len(BOOKS) - 1].cls = "Book"
  /\ BOOKS[Len(BOOKS)].title = BOOKS[Len(BOOKS) - 1].title

------------------------------------------------------------------------------
(* Properties of the user and query services *)

IsUserService == app = "user_service"

Quiet == \A t \in Workers : threads[t].pc = "idle"

\* C15: under every interleaving of concurrent register_user calls, the file
\* never holds two entries with the same email, and once the calls have
\* returned every user whose call got the success message is in the file.
C15_NoDuplicateNoLoss ==
  IsUserService =>
    /\ \A i, j \in 1..Len(users_json.users) :
         users_json.users[i].email = users_json.users[j].email => i = j
    /\ Quiet =>
         /\ ~users_json.broken
         /\ \A u \in last.acked : \E i \in 1..Len(users_json.users) :
              users_json.users[i] = u

\* C16: register_user with an email that is in the file fails with status
\* 400 and leaves the file as it is; find_user with an email that is not in
\* the file fails with status 404.
C16_Statuses ==
  IsUserService =>
    /\ (last.op = "register_user" /\ last.exists) =>
         last.res.status = 400 /\ last.res.detail = "User already exists"
    /\ (last.op = "find_user" /\ ~last.exists) =>
         last.res.status = 404

C16_RejectStep ==
  \A t \in Workers, user \in UserBodies :
    (register_user_load(t, user) /\ HasEmail(LoadOrEmpty(users_json), user.email)) =>
      users_json' = users_json

C16_ErrorStatuses == []C16_Statuses /\ [][C16_RejectStep]_vars

------------------------------------------------------------------------------
(* Properties of the Todo app *)

IsTodoApp == app = "TodoApp"

\* The todos-router operations, which all take the caller from
\* get_current_user.
TodoOps ==
  {"read_all", "read_todo", "create_todo", "update_todo", "delete_todo",
   "render_todo_page", "render_edit_todo_page"}

\* C13: a caller logged in with id u is only given todos whose owner_id is u, and an
\* update or a delete by u changes or removes only rows whose owner_id is u:
\* every row of another owner is in the table afterwards as it was before.
LoggedIn(user) == user # Unauthorized /\ user.id # None /\ user.username # None

C13_OnlyOwnReturned ==
  (IsTodoApp /\ last.op \in TodoOps /\ LoggedIn(last.auth)) =>
    \A k \in 1..Len(last.res.todos) : last.res.todos[k].owner_id = last.auth.id

C13_OnlyOwnChanged ==
  (IsTodoApp /\ last'.op \in {"update_todo", "delete_todo"}
             /\ LoggedIn(last'.auth)) =>
    \A k \in 1..Len(Todos.rows) :
      Todos.rows[k].owner_id # last'.auth.id =>
        \E j \in 1..Len(Todos'.rows) : Todos'.rows[j] = Todos.rows[k]

C13_OwnerIsolation == []C13_OnlyOwnReturned /\ [][C13_OnlyOwnChanged]_vars

\* C17: a token whose claims lack 'sub' or 'id' is rejected with 401, and a
\* todos-router operation never runs with a user dict whose 'id' or
\* 'username' is None.
C17_BothClaimsRequired ==
  (IsTodoApp /\ last.op \in TodoOps) =>
    /\ (cookies # None /\ (cookies[1].sub = None \/ cookies[1].id = None)) =>
         (last.auth = Unauthorized /\ last.auth.status = 401)
    /\ last.auth # Unauthorized =>
         (last.auth.id # None /\ last.auth.username # None)

\* C18: the token login_for_access_token issues at time t carries
\* exp = t + 20 minutes.
C18_ExpiresAfterLifetime ==
  (IsTodoApp /\ last.op = "login_for_access_token" /\ last.res.status = 200) =>
    last.res.access_token.exp = Some(last.t + ACCESS_TOKEN_MINUTES)

====
